---- MODULE Spec2Model ----
(***************************************************************************)
(* Study log: the session-management component (StudyLog.tsx, in its       *)
(* '__REST__' and its 'No Study' version) working on the remote            *)
(* study_sessions table, and the row-level-security policies the           *)
(* migrations leave on the tables.                                         *)
(*                                                                         *)
(* A calendar date 'YYYY-MM-DD' is the number of its day; an instant is a  *)
(* number of hours since the UTC midnight of day 0.  A client's timezone   *)
(* is its offset from UTC in hours (local time = UTC + tz).                *)
(* Every remote call is one atomic step at the store; what the client      *)
(* computes between two calls is part of the step of the call before it.   *)
(***************************************************************************)
EXTENDS Integers, Sequences, FiniteSets, TLC

\* ------------------------------------------------------------------ bounds
\* The date picker offers the dates 1..MaxDate.
MaxDate == 3
\* User operations (add, delete, delete day, reopening the page) in one behaviour.
MaxOps == 2
\* User operations in one behaviour of two clients.
MaxOpsConc == 1
\* Adds in one behaviour of two clients that only add.
MaxAdds == 2
\* Operations in one behaviour of a client that manages a subject named like the sentinel.
MaxReservedOps == 3
\* Operations after the first load in one behaviour of the specification with fairness.
MaxOpsLive == 1
\* Remote calls that may return an error in one behaviour.
MaxFail == 1

\* --------------------------------------------------------------- constants
REST_SUBJECT == "__REST__"
NO_STUDY == "No Study"
\* 1000 * 60 * 60 * 24 ms, in hours
HoursPerDay == 24

Clients == {1, 2}
Versions == {"rest", "nostudy"}
\* west of UTC, UTC, east of UTC
TZOffsets == {-5, 0, 5}
Dates == 1..MaxDate
\* new Date(): the day the page is opened
Today == MaxDate
\* what the session form submits: subject, hours, topic
AddInputs ==
  { [subject |-> "Java", hours |-> 2, topic |-> "arrays"],
    [subject |-> "DSA", hours |-> 1, topic |-> ""] }

\* what the form can also submit: no subject selected, hours 0, hours below 0
InvalidInputs ==
  { [subject |-> "", hours |-> 2, topic |-> "arrays"],
    [subject |-> "Java", hours |-> 0, topic |-> ""],
    [subject |-> "DSA", hours |-> -1, topic |-> ""] }
FormInputs == AddInputs \cup InvalidInputs

\* submissions of a user who manages a subject named like the sentinel
ReservedInputs ==
  { [subject |-> "Java", hours |-> 2, topic |-> "arrays"],
    [subject |-> REST_SUBJECT, hours |-> 1, topic |-> "nap"],
    [subject |-> NO_STUDY, hours |-> 1, topic |-> "nap"] }

\* the names typed into the subject form: one the table has, one it has not
SubjectInputs == {"Java", "OS"}
NoRow == [id |-> 0, entry_date |-> 0, day_number |-> 0, subject |-> "", hours |-> 0, topic |-> "", by |-> 0]
NoOp == [kind |-> "none", date |-> 0, subject |-> "", hours |-> 0, topic |-> "", id |-> 0,
         restore |-> FALSE]

NoFrame == [normalized |-> <<>>, missing |-> <<>>, final |-> <<>>, todo |-> <<>>,
            rows |-> <<>>, found |-> NoRow, dbSubjects |-> {}]

VARIABLES
  version,         \* which StudyLog the clients run
  page,            \* per client: the page whose React state its handlers read and set: its
                   \*   own, or another client's when it stands for a second handler
                   \*   running in that page
  tz,              \* the clients' timezone offset
  study_sessions,  \* the remote table: a set of rows
  app_subjects,    \* the remote table of subjects: a set of rows
  nextId,          \* the id the next inserted row gets (gen_random_uuid: never reused)
  pc,              \* per client: the remote call it issues next, or "idle"
  op,              \* per client: the operation in progress and its arguments
  frame,           \* per client: the locals of the operation in progress:
                   \*   normalized  loadData's first select
                   \*   dbSubjects  loadData's select of the subjects
                   \*   missing     loadData's missing dates still to insert
                   \*   final       loadData's recalculated list
                   \*   todo        the rows syncDayNumbersToDB has still to update
                   \*   rows        addSessionEntry's rows / deleteSession's remaining
                   \*   found       deleteSession's found row
  sessions,        \* per page: React state, the displayed list
  loading,         \* per page: React state
  selectedDate,    \* per page: React state
  synced,          \* per client: the ids the last loadData issued a day_number update for
  failed,          \* per client: a remote call of the last operation returned an error
  lastLoad,        \* per client: how the last operation's loadData ended: "none", "ok", "thrown"
  subjects,        \* per page: React state, the displayed subjects (their order is not modelled)
  alerted,         \* per page: the last operation showed an alert() dialog
  failBudget,      \* remote errors still to come
  opsLeft,         \* user operations still to come
  raced,           \* an operation started while another client's was in progress, and none has run alone since
  policies,        \* the row-level-security policies in force
  applied,         \* the migrations applied so far
  admin_users,     \* the emails in admin_users
  request          \* the last remote command attempted under the policies, and whether it was let through

clientVars == <<pc, op, frame, sessions, loading, selectedDate, synced, failed, lastLoad, subjects, alerted>>
storeVars == <<version, page, tz, study_sessions, app_subjects, nextId, failBudget, opsLeft, raced>>
rlsVars == <<policies, applied, admin_users, request>>
vars == <<storeVars, clientVars, rlsVars>>

\* ------------------------------------------------------------ date helpers
\* new Date(dStr + 'T00:00:00'): local midnight of the day, as an instant
LocalMidnight(dStr, off) == dStr * HoursPerDay - off

\* d.toISOString().split('T')[0]: the UTC date of an instant
toYMD(d) == d \div HoursPerDay

\* '__REST__' version
addDays(dStr, days, off) == toYMD(LocalMidnight(dStr, off) + days * HoursPerDay)

dateDiffDays(a, b, off) ==
  (LocalMidnight(b, off) - LocalMidnight(a, off) + (HoursPerDay \div 2)) \div HoursPerDay

\* 'No Study' version: getFullYear/getMonth/getDate, the local date of an instant
toYMDLocal(d, off) == (d + off) \div HoursPerDay

parseYMDToLocalDate(ymd, off) == ymd * HoursPerDay - off

addDaysLocal(dStr, days, off) == toYMDLocal(parseYMDToLocalDate(dStr, off) + days * HoursPerDay, off)

dateDiffDaysLocal(a, b, off) ==
  (parseYMDToLocalDate(b, off) - parseYMDToLocalDate(a, off) + (HoursPerDay \div 2)) \div HoursPerDay

\* the helper of the running version
AddDaysOf(v, dStr, days, off) ==
  IF v = "rest" THEN addDays(dStr, days, off) ELSE addDaysLocal(dStr, days, off)

DateDiffOf(v, a, b, off) ==
  IF v = "rest" THEN dateDiffDays(a, b, off) ELSE dateDiffDaysLocal(a, b, off)

\* the placeholder subject of the running version
Sentinel(v) == IF v = "rest" THEN REST_SUBJECT ELSE NO_STUDY

\* ------------------------------------------------------------- the table
Ids(S) == {r.id : r \in S}
DatesOf(S) == {r.entry_date : r \in S}
RowsAt(S, d) == {r \in S : r.entry_date = d}
SeqToSet(q) == {q[i] : i \in 1..Len(q)}

SetMin(S) == CHOOSE x \in S : \A y \in S : x <= y
SetMax(S) == CHOOSE x \in S : \A y \in S : y <= x

\* a set of integers as an ascending sequence
SortInts(S) ==
  IF S = {} THEN <<>>
  ELSE [i \in 1..Cardinality(S) |-> CHOOSE x \in S : Cardinality({y \in S : y < x}) = i - 1]

\* .select('*').order('entry_date', { ascending: true }); rows of one date by id
ComesBefore(q, r) ==
  q.entry_date < r.entry_date \/ (q.entry_date = r.entry_date /\ q.id < r.id)
SelectOrdered(S) ==
  IF S = {} THEN <<>>
  ELSE [i \in 1..Cardinality(S) |->
          CHOOSE r \in S : Cardinality({q \in S : ComesBefore(q, r)}) = i - 1]

\* .insert([...]): the store with one more row, under a fresh id
NewRow(c, d, dn, subject, hours, topic) ==
  [id |-> nextId, entry_date |-> d, day_number |-> dn, subject |-> subject,
   hours |-> hours, topic |-> topic, by |-> c]

\* variant: the update writes the whole row, with an empty topic
UpdateDayNumber_WholeRow(S, id, dn) ==
  {IF r.id = id THEN [r EXCEPT !.day_number = dn, !.topic = ""] ELSE r : r \in S}

\* variant: the update is not carried out
UpdateDayNumber_Noop(S, id, dn) == S

\* .update({ day_number }).eq('id', id): no row of that id is no error
UpdateDayNumber(S, id, dn) ==
  {IF r.id = id THEN [r EXCEPT !.day_number = dn] ELSE r : r \in S}

\* .update({ subject, hours, topic }).eq('id', id)
UpdateSession(S, id, subject, hours, topic) ==
  {IF r.id = id THEN [r EXCEPT !.subject = subject, !.hours = hours, !.topic = topic] ELSE r : r \in S}

\* ------------------------------------------------------- recalcDayNumbers
\* position of date in the ascending sequence of dates, counted from 0
DayNumOf(sortedDates, date) == (CHOOSE i \in 1..Len(sortedDates) : sortedDates[i] = date) - 1

\* variant: one index per row, not per date
recalcDayNumbers_PerRow(list) ==
  [i \in 1..Len(list) |-> [list[i] EXCEPT !.day_number = i - 1]]

\* variant: days counted from 1
recalcDayNumbers_FromOne(list) ==
  LET sortedDates == SortInts({list[i].entry_date : i \in 1..Len(list)})
  IN [i \in 1..Len(list) |-> [list[i] EXCEPT !.day_number = DayNumOf(sortedDates, list[i].entry_date) + 1]]

recalcDayNumbers(list) ==
  LET sortedDates == SortInts({list[i].entry_date : i \in 1..Len(list)})
  IN [i \in 1..Len(list) |-> [list[i] EXCEPT !.day_number = DayNumOf(sortedDates, list[i].entry_date)]]

\* variant: the loop stops one day early
MissingDates_ShortLoop(v, list, off) ==
  LET earliest == list[1].entry_date
      latest == list[Len(list)].entry_date
      have == {list[i].entry_date : i \in 1..Len(list)}
      n == DateDiffOf(v, earliest, latest, off)
      cand == [i \in 1..(n - 1) |-> AddDaysOf(v, earliest, i - 1, off)]
  IN SelectSeq(cand, LAMBDA d : d \notin have)

\* variant: dates that have a row are reported missing too
MissingDates_AllDates(v, list, off) ==
  LET earliest == list[1].entry_date
      latest == list[Len(list)].entry_date
      n == DateDiffOf(v, earliest, latest, off)
  IN [i \in 1..(n + 1) |-> AddDaysOf(v, earliest, i - 1, off)]

\* loadData's missing dates: the dates addDays(earliest, i), i = 0..dateDiffDays, with no row
MissingDates(v, list, off) ==
  LET earliest == list[1].entry_date
      latest == list[Len(list)].entry_date
      have == {list[i].entry_date : i \in 1..Len(list)}
      n == DateDiffOf(v, earliest, latest, off)
      cand == [i \in 1..(n + 1) |-> AddDaysOf(v, earliest, i - 1, off)]
  IN SelectSeq(cand, LAMBDA d : d \notin have)

\* getNextDayNumberForAppend
getNextDayNumberForAppend(list) ==
  IF Len(list) = 0 THEN 0 ELSE SetMax({list[i].day_number : i \in 1..Len(list)}) + 1

\* ------------------------------------------------------------ remote calls
\* what a remote call can return: data (TRUE) or an error (FALSE)
Outcomes == IF failBudget > 0 THEN {TRUE, FALSE} ELSE {TRUE}

\* the bookkeeping of one remote call of client c that returned ok
Returned(c, ok) ==
  /\ failBudget' = IF ok THEN failBudget ELSE failBudget - 1
  /\ failed' = [failed EXCEPT ![c] = failed[c] \/ ~ok]
  /\ UNCHANGED <<raced, opsLeft>>

\* the bookkeeping of the first remote call of an operation of client c
Started(c, ok) ==
  /\ failBudget' = IF ok THEN failBudget ELSE failBudget - 1
  /\ failed' = [failed EXCEPT ![c] = ~ok]
  /\ raced' = (\E o \in Clients \ {c} : pc[o] \notin {"idle", "off"})
  /\ opsLeft' = opsLeft - 1

\* the operation of client c returns: its locals are gone
Return(c, how) ==
  /\ pc' = [pc EXCEPT ![c] = "idle"]
  /\ loading' = [loading EXCEPT ![page[c]] = FALSE]
  /\ lastLoad' = [lastLoad EXCEPT ![c] = how]
  /\ op' = [op EXCEPT ![c] = NoOp]
  /\ frame' = [frame EXCEPT ![c] = NoFrame]

\* addSessionToDate's setSelectedDate(prevSelected), run when its addSessionEntry has
\* returned; op.date is the selectedDate that call was made with
RestoreSelected(c) ==
  selectedDate' = IF op[c].restore /\ pc'[c] = "idle"
                  THEN [selectedDate EXCEPT ![page[c]] = op[c].date]
                  ELSE selectedDate

\* the operation of client c goes on to its next remote call, with locals f
Goto(c, label, f) ==
  /\ pc' = [pc EXCEPT ![c] = label]
  /\ frame' = [frame EXCEPT ![c] = f]
  /\ UNCHANGED <<lastLoad, op>>

\* ---------------------------------------------------------------- loadData
\* variant: the empty branch sets the sessions only
LoadSelect_EmptyKeepsSubjects(c) ==
  /\ pc[c] = "load_select"
  /\ \E ok \in Outcomes :
       /\ Returned(c, ok)
       /\ IF ~ok
          THEN Return(c, "thrown") /\ UNCHANGED <<sessions, subjects>>
          ELSE LET list == SelectOrdered(study_sessions)
               IN IF Len(list) = 0
                  THEN /\ Return(c, "ok")
                       /\ sessions' = [sessions EXCEPT ![page[c]] = <<>>]
                       /\ UNCHANGED subjects
                  ELSE LET miss == MissingDates(version, list, tz)
                       IN /\ Goto(c, IF miss = <<>> THEN "load_reselect" ELSE "load_fill",
                                  [frame[c] EXCEPT !.normalized = list, !.missing = miss,
                                                  !.dbSubjects = app_subjects])
                          /\ UNCHANGED <<sessions, subjects, loading>>
  /\ synced' = [synced EXCEPT ![c] = {}]
  /\ UNCHANGED <<version, page, tz, app_subjects, study_sessions, nextId, alerted, rlsVars>>
  /\ RestoreSelected(c)

\* the first select (sessions and subjects); an empty table ends the load
LoadSelect(c) ==
  /\ pc[c] = "load_select"
  /\ \E ok \in Outcomes :
       /\ Returned(c, ok)
       /\ IF ~ok
          THEN Return(c, "thrown") /\ UNCHANGED <<sessions, subjects>>
          ELSE LET list == SelectOrdered(study_sessions)
               IN IF Len(list) = 0
                  THEN /\ Return(c, "ok")
                       /\ sessions' = [sessions EXCEPT ![page[c]] = <<>>]
                       /\ subjects' = [subjects EXCEPT ![page[c]] = app_subjects]
                  ELSE LET miss == MissingDates(version, list, tz)
                       IN /\ Goto(c, IF miss = <<>> THEN "load_reselect" ELSE "load_fill",
                                  [frame[c] EXCEPT !.normalized = list, !.missing = miss,
                                                  !.dbSubjects = app_subjects])
                          /\ UNCHANGED <<sessions, subjects, loading>>
  /\ synced' = [synced EXCEPT ![c] = {}]
  /\ UNCHANGED <<version, page, tz, app_subjects, study_sessions, nextId, alerted, rlsVars>>
  /\ RestoreSelected(c)

\* variant: a failed placeholder insert is thrown and ends the load
LoadFill_AbortsOnError(c) ==
  /\ pc[c] = "load_fill"
  /\ \E ok \in Outcomes :
       /\ Returned(c, ok)
       /\ study_sessions' =
            IF ok THEN study_sessions \cup
                         {NewRow(c, Head(frame[c].missing), 0, Sentinel(version), 0, "")}
                  ELSE study_sessions
       /\ nextId' = IF ok THEN nextId + 1 ELSE nextId
       /\ IF ok
          THEN /\ Goto(c, IF Tail(frame[c].missing) = <<>> THEN "load_reselect" ELSE "load_fill",
                       [frame[c] EXCEPT !.missing = Tail(frame[c].missing)])
               /\ UNCHANGED loading
          ELSE Return(c, "thrown")
  /\ UNCHANGED <<version, page, tz, app_subjects, sessions, synced, subjects, alerted, rlsVars>>
  /\ RestoreSelected(c)

\* variant: the re-select is issued without awaiting the remaining inserts
LoadFill_NotAwaited(c) ==
  /\ pc[c] = "load_fill"
  /\ \E ok \in Outcomes :
       /\ Returned(c, ok)
       /\ study_sessions' =
            IF ok THEN study_sessions \cup
                         {NewRow(c, Head(frame[c].missing), 0, Sentinel(version), 0, "")}
                  ELSE study_sessions
       /\ nextId' = IF ok THEN nextId + 1 ELSE nextId
  /\ Goto(c, "load_reselect",
          [frame[c] EXCEPT !.missing = Tail(frame[c].missing)])
  /\ UNCHANGED <<version, page, tz, app_subjects, sessions, loading, synced, subjects, alerted, rlsVars>>
  /\ RestoreSelected(c)

\* insert a placeholder row for the next missing date; an error is logged and the loop goes on
LoadFill(c) ==
  /\ pc[c] = "load_fill"
  /\ \E ok \in Outcomes :
       /\ Returned(c, ok)
       /\ study_sessions' =
            IF ok THEN study_sessions \cup
                         {NewRow(c, Head(frame[c].missing), 0, Sentinel(version), 0, "")}
                  ELSE study_sessions
       /\ nextId' = IF ok THEN nextId + 1 ELSE nextId
  /\ Goto(c, IF Tail(frame[c].missing) = <<>> THEN "load_reselect" ELSE "load_fill",
          [frame[c] EXCEPT !.missing = Tail(frame[c].missing)])
  /\ UNCHANGED <<version, page, tz, app_subjects, sessions, loading, synced, subjects, alerted, rlsVars>>
  /\ RestoreSelected(c)

\* variant: a failed re-select empties the displayed list
LoadReselect_ClearsOnError(c) ==
  /\ pc[c] = "load_reselect"
  /\ \E ok \in Outcomes :
       /\ Returned(c, ok)
       /\ IF ~ok
          THEN /\ Return(c, "thrown")
               /\ sessions' = [sessions EXCEPT ![page[c]] = <<>>]
               /\ UNCHANGED subjects
          ELSE LET fin == recalcDayNumbers(SelectOrdered(study_sessions))
               IN IF fin = <<>>
                  THEN /\ Return(c, "ok")
                       /\ sessions' = [sessions EXCEPT ![page[c]] = fin]
                       /\ subjects' = [subjects EXCEPT ![page[c]] = frame[c].dbSubjects]
                  ELSE /\ Goto(c, "load_sync", [frame[c] EXCEPT !.final = fin, !.todo = fin])
                       /\ UNCHANGED <<sessions, subjects, loading>>
  /\ UNCHANGED <<version, page, tz, app_subjects, study_sessions, nextId, synced, alerted, rlsVars>>
  /\ RestoreSelected(c)

\* the re-select and recalcDayNumbers
LoadReselect(c) ==
  /\ pc[c] = "load_reselect"
  /\ \E ok \in Outcomes :
       /\ Returned(c, ok)
       /\ IF ~ok
          THEN Return(c, "thrown") /\ UNCHANGED <<sessions, subjects>>
          ELSE LET fin == recalcDayNumbers(SelectOrdered(study_sessions))
               IN IF fin = <<>>
                  THEN /\ Return(c, "ok")
                       /\ sessions' = [sessions EXCEPT ![page[c]] = fin]
                       /\ subjects' = [subjects EXCEPT ![page[c]] = frame[c].dbSubjects]
                  ELSE /\ Goto(c, "load_sync", [frame[c] EXCEPT !.final = fin, !.todo = fin])
                       /\ UNCHANGED <<sessions, subjects, loading>>
  /\ UNCHANGED <<version, page, tz, app_subjects, study_sessions, nextId, synced, alerted, rlsVars>>
  /\ RestoreSelected(c)

\* variant: when the last update has returned the load starts over
LoadSync_StartsOver(c) ==
  /\ pc[c] = "load_sync"
  /\ LET s == Head(frame[c].todo)
     IN /\ \E ok \in Outcomes :
             /\ Returned(c, ok)
             /\ study_sessions' =
                  IF ok THEN UpdateDayNumber(study_sessions, s.id, s.day_number) ELSE study_sessions
        /\ synced' = [synced EXCEPT ![c] = synced[c] \cup {s.id}]
  /\ IF Tail(frame[c].todo) = <<>>
     THEN Goto(c, "load_select", NoFrame)
     ELSE Goto(c, "load_sync", [frame[c] EXCEPT !.todo = Tail(frame[c].todo)])
  /\ UNCHANGED <<sessions, subjects, loading>>
  /\ UNCHANGED <<version, page, tz, app_subjects, nextId, alerted, rlsVars>>
  /\ RestoreSelected(c)

\* syncDayNumbersToDB: one update; after the last one setSessions(final)
LoadSync(c) ==
  /\ pc[c] = "load_sync"
  /\ LET s == Head(frame[c].todo)
     IN /\ \E ok \in Outcomes :
             /\ Returned(c, ok)
             /\ study_sessions' =
                  IF ok THEN UpdateDayNumber(study_sessions, s.id, s.day_number) ELSE study_sessions
        /\ synced' = [synced EXCEPT ![c] = synced[c] \cup {s.id}]
  /\ IF Tail(frame[c].todo) = <<>>
     THEN /\ Return(c, "ok")
          /\ sessions' = [sessions EXCEPT ![page[c]] = frame[c].final]
          /\ subjects' = [subjects EXCEPT ![page[c]] = frame[c].dbSubjects]
     ELSE /\ Goto(c, "load_sync", [frame[c] EXCEPT !.todo = Tail(frame[c].todo)])
          /\ UNCHANGED <<sessions, subjects, loading>>
  /\ UNCHANGED <<version, page, tz, app_subjects, nextId, alerted, rlsVars>>
  /\ RestoreSelected(c)

\* loadData() is called with locals f: setLoading(true) runs before its first await
CallLoadData(c, f) ==
  /\ Goto(c, "load_select", f)
  /\ loading' = [loading EXCEPT ![page[c]] = TRUE]

\* the user can act: nothing is in progress and the page is rendered
CanStart(c) ==
  /\ pc[c] = "idle"
  /\ ~loading[page[c]]
  /\ opsLeft > 0

\* --------------------------------------------------------- addSessionEntry
\* variant: a failure of addSessionEntry is logged only
AlertOnFailure_Never(c, ok) == alerted' = [alerted EXCEPT ![page[c]] = FALSE]

\* variant: addSessionEntry without its validation
InputRejected_Never(subject, hours) == FALSE

\* addSessionEntry's first test: if (!subject || hours <= 0) alert and return
InputRejected(subject, hours) == subject = "" \/ hours <= 0

\* addSessionEntry's error branches: console.error and alert('Failed to add session')
AlertOnFailure(c, ok) == alerted' = [alerted EXCEPT ![page[c]] = ~ok]

\* variant: a placeholder row is never converted
AddPlan_AlwaysInsert(v, rws, shown) ==
  [update |-> 0,
   dn |-> IF v = "nostudy" THEN 0
          ELSE IF Len(rws) = 0 THEN getNextDayNumberForAppend(shown)
          ELSE rws[1].day_number]

\* the row addSessionEntry converts (0: none, it inserts) and the day_number of an inserted row
AddPlan(v, rws, shown) ==
  LET rest == {i \in 1..Len(rws) : rws[i].subject = Sentinel(v)}
  IN IF rest # {}
     THEN [update |-> rws[SetMin(rest)].id, dn |-> 0]
     ELSE [update |-> 0,
           dn |-> IF v = "nostudy" THEN 0
                  ELSE IF Len(rws) = 0 THEN getNextDayNumberForAppend(shown)
                  ELSE rws[1].day_number]

\* the user picks date d in the date input (onChange: setSelectedDate) and submits the
\* form: the select of the rows of selectedDate
AddSelect(c, d, in) ==
  /\ CanStart(c)
  /\ selectedDate' = [selectedDate EXCEPT ![page[c]] = d]
  /\ IF InputRejected(in.subject, in.hours)
     THEN /\ alerted' = [alerted EXCEPT ![page[c]] = TRUE]
          /\ opsLeft' = opsLeft - 1
          /\ UNCHANGED <<failBudget, failed, raced, pc, op, frame, lastLoad, loading>>
     ELSE \E ok \in Outcomes :
       /\ Started(c, ok)
       /\ AlertOnFailure(c, ok)
       /\ IF ok
          THEN /\ pc' = [pc EXCEPT ![c] = "add_write"]
               /\ op' = [op EXCEPT ![c] = [kind |-> "add", date |-> d, subject |-> in.subject,
                                           hours |-> in.hours, topic |-> in.topic, id |-> 0,
                                           restore |-> FALSE]]
               /\ frame' = [frame EXCEPT ![c] =
                              [NoFrame EXCEPT !.rows = SelectOrdered(RowsAt(study_sessions, d))]]
               /\ lastLoad' = [lastLoad EXCEPT ![c] = "none"]
               /\ UNCHANGED loading
          ELSE Return(c, "none")
  /\ UNCHANGED <<version, page, tz, app_subjects, study_sessions, nextId, sessions, synced, subjects, rlsVars>>

\* ('No Study' version) Edit of date d is clicked and the prompts are answered with in.
\* addSessionToDate(d, ...) calls setSelectedDate(d), which shows at the next render,
\* and then the addSessionEntry of the render of the click, whose selectedDate is the
\* one of before the click: the select of the rows of that date
AddSessionToDate(c, d, in) ==
  /\ CanStart(c)
  /\ version = "nostudy"
  /\ d \in DatesOf(SeqToSet(sessions[page[c]]))
  /\ \E ok \in Outcomes :
       /\ Started(c, ok)
       /\ AlertOnFailure(c, ok)
       /\ IF ok
          THEN /\ pc' = [pc EXCEPT ![c] = "add_write"]
               /\ op' = [op EXCEPT ![c] = [kind |-> "add", date |-> selectedDate[page[c]],
                                           subject |-> in.subject, hours |-> in.hours,
                                           topic |-> in.topic, id |-> 0, restore |-> TRUE]]
               /\ frame' = [frame EXCEPT ![c] =
                              [NoFrame EXCEPT !.rows =
                                 SelectOrdered(RowsAt(study_sessions, selectedDate[page[c]]))]]
               /\ lastLoad' = [lastLoad EXCEPT ![c] = "none"]
               /\ selectedDate' = [selectedDate EXCEPT ![page[c]] = d]
               /\ UNCHANGED loading
          ELSE /\ Return(c, "none")
               /\ UNCHANGED selectedDate
  /\ UNCHANGED <<version, page, tz, app_subjects, study_sessions, nextId, sessions, synced, subjects, rlsVars>>

\* variant: an insert on a date that has rows replaces the date's first row
AddWrite_ReplacesFirst(c) ==
  /\ pc[c] = "add_write"
  /\ LET plan == AddPlan(version, frame[c].rows, sessions[page[c]])
         o == op[c]
     IN \E ok \in Outcomes :
          /\ Returned(c, ok)
          /\ AlertOnFailure(c, ok)
          /\ IF ~ok
             THEN /\ Return(c, "none")
                  /\ UNCHANGED <<study_sessions, nextId>>
             ELSE /\ CallLoadData(c, frame[c])
                  /\ IF plan.update # 0
                     THEN /\ study_sessions' = UpdateSession(study_sessions, plan.update,
                                                             o.subject, o.hours, o.topic)
                          /\ UNCHANGED nextId
                     ELSE /\ study_sessions' =
                               {r \in study_sessions :
                                  Len(frame[c].rows) = 0 \/ r.id # frame[c].rows[1].id} \cup
                               {NewRow(c, o.date, plan.dn, o.subject, o.hours, o.topic)}
                          /\ nextId' = nextId + 1
  /\ UNCHANGED <<version, page, tz, app_subjects, sessions, synced, subjects, rlsVars>>
  /\ RestoreSelected(c)

\* the update of the placeholder row, or the insert; then loadData
AddWrite(c) ==
  /\ pc[c] = "add_write"
  /\ LET plan == AddPlan(version, frame[c].rows, sessions[page[c]])
         o == op[c]
     IN \E ok \in Outcomes :
          /\ Returned(c, ok)
          /\ AlertOnFailure(c, ok)
          /\ IF ~ok
             THEN /\ Return(c, "none")
                  /\ UNCHANGED <<study_sessions, nextId>>
             ELSE /\ CallLoadData(c, frame[c])
                  /\ IF plan.update # 0
                     THEN /\ study_sessions' = UpdateSession(study_sessions, plan.update,
                                                             o.subject, o.hours, o.topic)
                          /\ UNCHANGED nextId
                     ELSE /\ study_sessions' = study_sessions \cup
                               {NewRow(c, o.date, plan.dn, o.subject, o.hours, o.topic)}
                          /\ nextId' = nextId + 1
  /\ UNCHANGED <<version, page, tz, app_subjects, sessions, synced, subjects, rlsVars>>
  /\ RestoreSelected(c)

\* ----------------------------------------------------------- deleteSession
\* the rows that show a Delete button
Deletable(v, shown) ==
  {shown[i].id : i \in {j \in 1..Len(shown) : v = "rest" \/ shown[j].subject # NO_STUDY}}

\* Delete is clicked and confirmed: the select of the row by id
DelFind(c, id) ==
  /\ CanStart(c)
  /\ id \in Deletable(version, sessions[page[c]])
  /\ \E ok \in Outcomes :
       /\ Started(c, ok)
       /\ LET hit == {r \in study_sessions : r.id = id}
          IN IF ok /\ hit # {}
             THEN LET row == CHOOSE r \in hit : TRUE
                  IN /\ pc' = [pc EXCEPT ![c] = "del_delete"]
                     /\ op' = [op EXCEPT ![c] = [NoOp EXCEPT !.kind = "del", !.id = id,
                                                              !.date = row.entry_date]]
                     /\ frame' = [frame EXCEPT ![c] = [NoFrame EXCEPT !.found = row]]
                     /\ lastLoad' = [lastLoad EXCEPT ![c] = "none"]
                     /\ UNCHANGED loading
             ELSE Return(c, "none")
  /\ alerted' = [alerted EXCEPT ![page[c]] = FALSE]
  /\ UNCHANGED <<version, page, tz, app_subjects, study_sessions, nextId, sessions, selectedDate, synced, subjects, rlsVars>>

\* variant: a failed delete is logged and deleteSession goes on
DelDelete_IgnoresError(c) ==
  /\ pc[c] = "del_delete"
  /\ \E ok \in Outcomes :
       /\ Returned(c, ok)
       /\ study_sessions' = IF ok THEN {r \in study_sessions : r.id # op[c].id}
                                  ELSE study_sessions
       /\ Goto(c, "del_check", frame[c])
       /\ UNCHANGED loading
  /\ UNCHANGED <<version, page, tz, app_subjects, nextId, sessions, selectedDate, synced, subjects, alerted, rlsVars>>

\* the delete by id
DelDelete(c) ==
  /\ pc[c] = "del_delete"
  /\ \E ok \in Outcomes :
       /\ Returned(c, ok)
       /\ IF ok
          THEN /\ study_sessions' = {r \in study_sessions : r.id # op[c].id}
               /\ Goto(c, "del_check", frame[c])
               /\ UNCHANGED loading
          ELSE /\ Return(c, "none")
               /\ UNCHANGED study_sessions
  /\ UNCHANGED <<version, page, tz, app_subjects, nextId, sessions, selectedDate, synced, subjects, alerted, rlsVars>>

\* variant: no placeholder after a delete
NeedsPlaceholder_Never(v, remaining) == FALSE

\* a placeholder is to be inserted: no real row remains for the date, and no row at all
NeedsPlaceholder(v, remaining) ==
  /\ ~(\E i \in 1..Len(remaining) : remaining[i].subject # Sentinel(v))
  /\ Len(remaining) = 0

\* variant: the placeholder is dated the day before
RestRowAfterDelete_DayBefore(c, v, date) == NewRow(c, date - 1, 0, Sentinel(v), 0, "")

\* the placeholder row deleteSession inserts
RestRowAfterDelete(c, v, date) == NewRow(c, date, 0, Sentinel(v), 0, "")

\* the select of the rows that remain for the date
DelCheck(c) ==
  /\ pc[c] = "del_check"
  /\ \E ok \in Outcomes :
       /\ Returned(c, ok)
       /\ LET remaining == SelectOrdered(RowsAt(study_sessions, op[c].date))
          IN IF ok
             THEN IF NeedsPlaceholder(version, remaining)
                  THEN /\ Goto(c, "del_insert", [frame[c] EXCEPT !.rows = remaining])
                       /\ UNCHANGED loading
                  ELSE CallLoadData(c, [frame[c] EXCEPT !.rows = remaining])
             ELSE CallLoadData(c, frame[c])
  /\ UNCHANGED <<version, page, tz, app_subjects, study_sessions, nextId, sessions, selectedDate, synced, subjects, alerted, rlsVars>>

\* the insert of the placeholder row; an error is logged; then loadData
DelInsert(c) ==
  /\ pc[c] = "del_insert"
  /\ \E ok \in Outcomes :
       /\ Returned(c, ok)
       /\ study_sessions' =
            IF ok THEN study_sessions \cup {RestRowAfterDelete(c, version, op[c].date)}
                  ELSE study_sessions
       /\ nextId' = IF ok THEN nextId + 1 ELSE nextId
  /\ CallLoadData(c, frame[c])
  /\ UNCHANGED <<version, page, tz, app_subjects, sessions, selectedDate, synced, subjects, alerted, rlsVars>>

\* --------------------------------------------------------------- deleteDay
\* variant: deleteDay deletes one row of the date only
DeleteDay_OneRow(c, date) ==
  /\ CanStart(c)
  /\ version = "nostudy"
  /\ date \in {sessions[page[c]][i].entry_date : i \in 1..Len(sessions[page[c]])}
  /\ \E ok \in Outcomes :
       /\ Started(c, ok)
       /\ IF ok
          THEN /\ study_sessions' =
                    IF RowsAt(study_sessions, date) = {} THEN study_sessions
                    ELSE study_sessions \ {CHOOSE r \in RowsAt(study_sessions, date) : TRUE}
               /\ pc' = [pc EXCEPT ![c] = "dd_insert"]
               /\ op' = [op EXCEPT ![c] = [NoOp EXCEPT !.kind = "delday", !.date = date]]
               /\ frame' = [frame EXCEPT ![c] = NoFrame]
               /\ lastLoad' = [lastLoad EXCEPT ![c] = "none"]
               /\ UNCHANGED loading
          ELSE /\ Return(c, "none")
               /\ UNCHANGED study_sessions
  /\ alerted' = [alerted EXCEPT ![page[c]] = FALSE]
  /\ UNCHANGED <<version, page, tz, app_subjects, nextId, sessions, selectedDate, synced, subjects, rlsVars>>

\* ('No Study' version) Delete of a day is clicked and confirmed: the delete by date
DeleteDay(c, date) ==
  /\ CanStart(c)
  /\ version = "nostudy"
  /\ date \in {sessions[page[c]][i].entry_date : i \in 1..Len(sessions[page[c]])}
  /\ \E ok \in Outcomes :
       /\ Started(c, ok)
       /\ IF ok
          THEN /\ study_sessions' = {r \in study_sessions : r.entry_date # date}
               /\ pc' = [pc EXCEPT ![c] = "dd_insert"]
               /\ op' = [op EXCEPT ![c] = [NoOp EXCEPT !.kind = "delday", !.date = date]]
               /\ frame' = [frame EXCEPT ![c] = NoFrame]
               /\ lastLoad' = [lastLoad EXCEPT ![c] = "none"]
               /\ UNCHANGED loading
          ELSE /\ Return(c, "none")
               /\ UNCHANGED study_sessions
  /\ alerted' = [alerted EXCEPT ![page[c]] = FALSE]
  /\ UNCHANGED <<version, page, tz, app_subjects, nextId, sessions, selectedDate, synced, subjects, rlsVars>>

\* the insert of the single placeholder row; an error is logged; then loadData
DeleteDayInsert(c) ==
  /\ pc[c] = "dd_insert"
  /\ \E ok \in Outcomes :
       /\ Returned(c, ok)
       /\ study_sessions' =
            IF ok THEN study_sessions \cup {NewRow(c, op[c].date, 0, NO_STUDY, 0, "")}
                  ELSE study_sessions
       /\ nextId' = IF ok THEN nextId + 1 ELSE nextId
  /\ CallLoadData(c, frame[c])
  /\ UNCHANGED <<version, page, tz, app_subjects, sessions, selectedDate, synced, subjects, alerted, rlsVars>>

\* ------------------------------------------------------------ the page
\* the page is opened again: fresh React state, and useEffect calls loadData
Mount(c) ==
  /\ CanStart(c)
  /\ pc' = [pc EXCEPT ![c] = "load_select"]
  /\ op' = [op EXCEPT ![c] = [NoOp EXCEPT !.kind = "load"]]
  /\ frame' = [frame EXCEPT ![c] = NoFrame]
  /\ sessions' = [sessions EXCEPT ![page[c]] = <<>>]
  /\ loading' = [loading EXCEPT ![page[c]] = TRUE]
  /\ selectedDate' = [selectedDate EXCEPT ![page[c]] = Today]
  /\ lastLoad' = [lastLoad EXCEPT ![c] = "none"]
  /\ failed' = [failed EXCEPT ![c] = FALSE]
  /\ raced' = (\E o \in Clients \ {c} : pc[o] \notin {"idle", "off"})
  /\ opsLeft' = opsLeft - 1
  /\ alerted' = [alerted EXCEPT ![page[c]] = FALSE]
  /\ subjects' = [subjects EXCEPT ![page[c]] = {}]
  /\ UNCHANGED <<version, page, tz, app_subjects, study_sessions, nextId, failBudget, synced, rlsVars>>

\* ---------------------------------------------------------------- subjects
\* variant: app_subjects.name without its UNIQUE constraint
AddSubject_NoUnique(c, name) ==
  /\ CanStart(c)
  /\ \E ok \in Outcomes :
       LET row == [id |-> nextId, name |-> name]
       IN /\ failBudget' = IF ok THEN failBudget ELSE failBudget - 1
          /\ failed' = [failed EXCEPT ![c] = ~ok]
          /\ alerted' = [alerted EXCEPT ![page[c]] = ~ok]
          /\ app_subjects' = IF ok THEN app_subjects \cup {row} ELSE app_subjects
          /\ nextId' = IF ok THEN nextId + 1 ELSE nextId
          /\ subjects' = IF ok THEN [subjects EXCEPT ![page[c]] = subjects[page[c]] \cup {row}] ELSE subjects
  /\ lastLoad' = [lastLoad EXCEPT ![c] = "none"]
  /\ opsLeft' = opsLeft - 1
  /\ UNCHANGED <<version, page, tz, study_sessions, raced, pc, op, frame, sessions, loading,
                 selectedDate, synced, rlsVars>>

\* addSubject: one insert; the new row is appended to the displayed subjects, or the
\* error (a remote failure, or the UNIQUE constraint on name) is logged and alerted
AddSubject(c, name) ==
  /\ CanStart(c)
  /\ \E ok \in Outcomes :
       LET good == ok /\ ~(\E r \in app_subjects : r.name = name)
           row == [id |-> nextId, name |-> name]
       IN /\ failBudget' = IF ok THEN failBudget ELSE failBudget - 1
          /\ failed' = [failed EXCEPT ![c] = ~good]
          /\ alerted' = [alerted EXCEPT ![page[c]] = ~good]
          /\ app_subjects' = IF good THEN app_subjects \cup {row} ELSE app_subjects
          /\ nextId' = IF good THEN nextId + 1 ELSE nextId
          /\ subjects' = IF good THEN [subjects EXCEPT ![page[c]] = subjects[page[c]] \cup {row}] ELSE subjects
  /\ lastLoad' = [lastLoad EXCEPT ![c] = "none"]
  /\ opsLeft' = opsLeft - 1
  /\ UNCHANGED <<version, page, tz, study_sessions, raced, pc, op, frame, sessions, loading,
                 selectedDate, synced, rlsVars>>

\* variant: deleteSubject leaves the displayed subjects as they were
DeleteSubject_KeepsDisplayed(c, id) ==
  /\ CanStart(c)
  /\ id \in {r.id : r \in subjects[page[c]]}
  /\ \E ok \in Outcomes :
       /\ failBudget' = IF ok THEN failBudget ELSE failBudget - 1
       /\ failed' = [failed EXCEPT ![c] = ~ok]
       /\ app_subjects' = IF ok THEN {r \in app_subjects : r.id # id} ELSE app_subjects
  /\ alerted' = [alerted EXCEPT ![page[c]] = FALSE]
  /\ lastLoad' = [lastLoad EXCEPT ![c] = "none"]
  /\ opsLeft' = opsLeft - 1
  /\ UNCHANGED <<version, page, tz, study_sessions, nextId, raced, pc, op, frame, sessions, loading,
                 selectedDate, synced, subjects, rlsVars>>

\* variant: deleteSubject also deletes the sessions of the subject's name
DeleteSubject_Cascade(c, id) ==
  /\ CanStart(c)
  /\ id \in {r.id : r \in subjects[page[c]]}
  /\ \E ok \in Outcomes :
       /\ failBudget' = IF ok THEN failBudget ELSE failBudget - 1
       /\ failed' = [failed EXCEPT ![c] = ~ok]
       /\ app_subjects' = IF ok THEN {r \in app_subjects : r.id # id} ELSE app_subjects
       /\ study_sessions' =
            IF ok THEN {r \in study_sessions :
                          ~(\E a \in app_subjects : a.id = id /\ a.name = r.subject)}
                  ELSE study_sessions
       /\ subjects' = IF ok THEN [subjects EXCEPT ![page[c]] = {r \in subjects[page[c]] : r.id # id}]
                            ELSE subjects
  /\ alerted' = [alerted EXCEPT ![page[c]] = FALSE]
  /\ lastLoad' = [lastLoad EXCEPT ![c] = "none"]
  /\ opsLeft' = opsLeft - 1
  /\ UNCHANGED <<version, page, tz, nextId, raced, pc, op, frame, sessions, loading,
                 selectedDate, synced, rlsVars>>

\* deleteSubject, confirmed: one delete by id; the row is filtered out of the displayed
\* subjects, or the error is logged
DeleteSubject(c, id) ==
  /\ CanStart(c)
  /\ id \in {r.id : r \in subjects[page[c]]}
  /\ \E ok \in Outcomes :
       /\ failBudget' = IF ok THEN failBudget ELSE failBudget - 1
       /\ failed' = [failed EXCEPT ![c] = ~ok]
       /\ app_subjects' = IF ok THEN {r \in app_subjects : r.id # id} ELSE app_subjects
       /\ subjects' = IF ok THEN [subjects EXCEPT ![page[c]] = {r \in subjects[page[c]] : r.id # id}]
                            ELSE subjects
  /\ alerted' = [alerted EXCEPT ![page[c]] = FALSE]
  /\ lastLoad' = [lastLoad EXCEPT ![c] = "none"]
  /\ opsLeft' = opsLeft - 1
  /\ UNCHANGED <<version, page, tz, study_sessions, nextId, raced, pc, op, frame, sessions, loading,
                 selectedDate, synced, rlsVars>>

\* ------------------------------------------------------------- the summary
\* sessions.forEach: hours are added to the total of the session's subject when the
\* totals have that key
RECURSIVE AddSessionHours(_, _)
AddSessionHours(list, totals) ==
  IF list = <<>> THEN totals
  ELSE LET s == Head(list)
       IN AddSessionHours(Tail(list),
            IF s.subject \in DOMAIN totals
            THEN [totals EXCEPT ![s.subject] = @ + s.hours]
            ELSE totals)

\* sessions.forEach without the hasOwnProperty test: every subject text gets a total
RECURSIVE AddEverySessionHours(_, _)
AddEverySessionHours(list, totals) ==
  IF list = <<>> THEN totals
  ELSE LET s == Head(list)
           had == IF s.subject \in DOMAIN totals THEN totals[s.subject] ELSE 0
       IN AddEverySessionHours(Tail(list),
            [n \in DOMAIN totals \cup {s.subject} |->
               IF n = s.subject THEN had + s.hours ELSE totals[n]])

\* variant: sessions of unmanaged subjects are summed too
calculateSubjectTotals_EverySubject(sess, subs) ==
  AddEverySessionHours(sess, [n \in {a.name : a \in subs} |-> 0])

\* SummaryPanel.calculateSubjectTotals: one key per managed subject, starting at 0
calculateSubjectTotals(sess, subs) ==
  AddSessionHours(sess, [n \in {a.name : a \in subs} |-> 0])

\* Object.values(totals).reduce((sum, val) => sum + val, 0)
RECURSIVE SumValues(_, _)
SumValues(totals, keys) ==
  IF keys = {} THEN 0
  ELSE LET k == CHOOSE x \in keys : TRUE
       IN totals[k] + SumValues(totals, keys \ {k})

grandTotal(totals) == SumValues(totals, DOMAIN totals)

\* ------------------------------------------------- row-level security
\* a policy: CREATE POLICY name ON table FOR cmd TO role; admin: its USING / WITH CHECK
\* is the membership of the caller's email claim in admin_users (otherwise it is true)
Policy(name, table, cmd, role, admin) ==
  [name |-> name, table |-> table, cmd |-> cmd, role |-> role, admin |-> admin]

\* DROP POLICY IF EXISTS name ON table
DropPolicy(P, name, table) == {p \in P : ~(p.name = name /\ p.table = table)}

\* the first migration: study_entries and its public policies
CreateStudyLogPolicies ==
  { Policy("Allow public read access", "study_entries", "SELECT", "anon", FALSE),
    Policy("Allow public insert access", "study_entries", "INSERT", "anon", FALSE),
    Policy("Allow public update access", "study_entries", "UPDATE", "anon", FALSE),
    Policy("Allow public delete access", "study_entries", "DELETE", "anon", FALSE) }

\* the schema redesign: app_subjects and study_sessions and their public policies
RedesignPolicies ==
  { Policy("Allow public read subjects", "app_subjects", "SELECT", "anon", FALSE),
    Policy("Allow public insert subjects", "app_subjects", "INSERT", "anon", FALSE),
    Policy("Allow public delete subjects", "app_subjects", "DELETE", "anon", FALSE),
    Policy("Allow public read sessions", "study_sessions", "SELECT", "anon", FALSE),
    Policy("Allow public insert sessions", "study_sessions", "INSERT", "anon", FALSE),
    Policy("Allow public update sessions", "study_sessions", "UPDATE", "anon", FALSE),
    Policy("Allow public delete sessions", "study_sessions", "DELETE", "anon", FALSE) }

\* the admin migration's DO block
AdminDrops(P) ==
  DropPolicy(DropPolicy(DropPolicy(DropPolicy(DropPolicy(P,
    "Allow public insert access", "study_sessions"),
    "Allow public update access", "study_sessions"),
    "Allow public delete access", "study_sessions"),
    "Allow public insert subjects", "app_subjects"),
    "Allow public delete subjects", "app_subjects")

\* the admin migration's CREATE POLICY statements on the two tables
AdminPolicies ==
  { Policy("Admin insert sessions", "study_sessions", "INSERT", "authenticated", TRUE),
    Policy("Admin update sessions", "study_sessions", "UPDATE", "authenticated", TRUE),
    Policy("Admin delete sessions", "study_sessions", "DELETE", "authenticated", TRUE),
    Policy("Admin insert subjects", "app_subjects", "INSERT", "authenticated", TRUE),
    Policy("Admin delete subjects", "app_subjects", "DELETE", "authenticated", TRUE) }

Emails == {"omkar@example.com", "guest@example.com"}
\* who calls: the anonymous key, or a signed-in user with a verified email claim
Callers == {[role |-> "anon", email |-> ""]} \cup {[role |-> "authenticated", email |-> e] : e \in Emails}
Tables == {"study_entries", "app_subjects", "study_sessions"}
Commands == {"SELECT", "INSERT", "UPDATE", "DELETE"}
NoRequest == [caller |-> [role |-> "", email |-> ""], table |-> "", cmd |-> "", allowed |-> FALSE]

\* row-level security is enabled on every table: a command passes when a policy of the
\* table for that command and the caller's role lets it through
Permitted(P, admins, caller, table, cmd) ==
  \E p \in P : /\ p.table = table
               /\ p.cmd = cmd
               /\ p.role = caller.role
               /\ (p.admin => caller.email \in admins)

ApplyCreateStudyLog ==
  /\ applied = <<>>
  /\ applied' = <<"create_study_log">>
  /\ policies' = policies \cup CreateStudyLogPolicies
  /\ UNCHANGED <<admin_users, request, storeVars, clientVars>>

ApplyRedesign ==
  /\ applied = <<"create_study_log">>
  /\ applied' = Append(applied, "redesign")
  /\ policies' = policies \cup RedesignPolicies
  /\ UNCHANGED <<admin_users, request, storeVars, clientVars>>

ApplyAdminPolicies ==
  /\ applied = <<"create_study_log", "redesign">>
  /\ applied' = Append(applied, "admin_rls")
  /\ policies' = AdminDrops(policies) \cup AdminPolicies
  /\ UNCHANGED <<admin_users, request, storeVars, clientVars>>

AllApplied == applied = <<"create_study_log", "redesign", "admin_rls">>

\* an administrator is registered (by the service role, which bypasses the policies)
AddAdminUser(e) ==
  /\ AllApplied
  /\ e \notin admin_users
  /\ admin_users' = admin_users \cup {e}
  /\ UNCHANGED <<policies, applied, request, storeVars, clientVars>>

\* a caller issues a command on a table that exists
Attempt(caller, table, cmd) ==
  /\ \E p \in policies : p.table = table
  /\ request' = [caller |-> caller, table |-> table, cmd |-> cmd,
                 allowed |-> Permitted(policies, admin_users, caller, table, cmd)]
  /\ UNCHANGED <<policies, applied, admin_users, storeVars, clientVars>>

\* --------------------------------------------------------- specifications
Row(id, d, dn, subject, hours, topic) ==
  [id |-> id, entry_date |-> d, day_number |-> dn, subject |-> subject,
   hours |-> hours, topic |-> topic, by |-> 0]

\* sessions on the first and the third day only
ExampleStore == {Row(1, 1, 0, "Java", 2, "arrays"), Row(2, 3, 1, "DSA", 1, "")}
\* one session, numbered by an earlier revision
OneRowStore == {Row(1, 2, 1, "Java", 2, "arrays")}
InitStores == {{}, OneRowStore, ExampleStore}

InitClients(running) ==
  /\ pc = [c \in Clients |-> IF c \in running THEN "load_select" ELSE "off"]
  /\ op = [c \in Clients |-> IF c \in running THEN [NoOp EXCEPT !.kind = "load"] ELSE NoOp]
  /\ frame = [c \in Clients |-> NoFrame]
  /\ sessions = [c \in Clients |-> <<>>]
  /\ loading = [c \in Clients |-> c \in running]
  /\ selectedDate = [c \in Clients |-> Today]
  /\ synced = [c \in Clients |-> {}]
  /\ failed = [c \in Clients |-> FALSE]
  /\ lastLoad = [c \in Clients |-> "none"]
  /\ subjects = [c \in Clients |-> {}]
  /\ alerted = [c \in Clients |-> FALSE]
  /\ raced = (Cardinality(running) > 1)

\* the subjects the schema migration seeds (two of them)
InitSubjects == {[id |-> 91, name |-> "Java"], [id |-> 92, name |-> "DSA"]}

InitStore ==
  /\ version \in Versions
  /\ page = [c \in Clients |-> c]
  /\ tz \in TZOffsets
  /\ study_sessions \in InitStores
  /\ app_subjects = InitSubjects
  /\ nextId = Cardinality(study_sessions) + 1

InitRLSIdle ==
  /\ policies = {}
  /\ applied = <<>>
  /\ admin_users = {}
  /\ request = NoRequest

\* one client; no remote call fails
Init ==
  /\ InitStore
  /\ InitClients({1})
  /\ failBudget = 0
  /\ opsLeft = MaxOps
  /\ InitRLSIdle

\* one client; remote calls may return errors
InitFail ==
  /\ InitStore
  /\ InitClients({1})
  /\ failBudget = MaxFail
  /\ opsLeft = MaxOps
  /\ InitRLSIdle

\* two clients on one store; no remote call fails
InitConc ==
  /\ InitStore
  /\ tz = 0
  /\ InitClients(Clients)
  /\ failBudget = 0
  /\ opsLeft = MaxOpsConc
  /\ InitRLSIdle

\* the migrations and the callers; no client runs
InitRLS ==
  /\ version = "nostudy"
  /\ page = [c \in Clients |-> c]
  /\ tz = 0
  /\ study_sessions = {}
  /\ app_subjects = {}
  /\ nextId = 1
  /\ InitClients({})
  /\ failBudget = 0
  /\ opsLeft = 0
  /\ InitRLSIdle

Next ==
  \E c \in Clients :
    \/ LoadSelect(c)
    \/ LoadFill(c)
    \/ LoadReselect(c)
    \/ LoadSync(c)
    \/ \E d \in Dates, in \in FormInputs : AddSelect(c, d, in)
    \/ AddWrite(c)
    \/ \E id \in Ids(study_sessions) \cup SeqToSet([i \in 1..Len(sessions[page[c]]) |-> sessions[page[c]][i].id]) : DelFind(c, id)
    \/ DelDelete(c)
    \/ DelCheck(c)
    \/ DelInsert(c)
    \/ \E d \in DatesOf(SeqToSet(sessions[page[c]])) : DeleteDay(c, d)
    \/ DeleteDayInsert(c)
    \/ Mount(c)
    \/ \E d \in Dates, in \in AddInputs : AddSessionToDate(c, d, in)
    \/ \E n \in SubjectInputs : AddSubject(c, n)
    \/ \E r \in subjects[page[c]] : DeleteSubject(c, r.id)

\* a store whose one date holds a placeholder row (its last session was deleted), loaded
\* and displayed
InitAddsInPages ==
  /\ version \in Versions
  /\ tz = 0
  /\ study_sessions = {Row(1, 1, 0, Sentinel(version), 0, "")}
  /\ app_subjects = InitSubjects
  /\ nextId = 2
  /\ pc = [c \in Clients |-> "idle"]
  /\ op = [c \in Clients |-> NoOp]
  /\ frame = [c \in Clients |-> NoFrame]
  /\ sessions = [c \in Clients |-> SelectOrdered(study_sessions)]
  /\ loading = [c \in Clients |-> FALSE]
  /\ selectedDate = [c \in Clients |-> Today]
  /\ synced = [c \in Clients |-> Ids(study_sessions)]
  /\ failed = [c \in Clients |-> FALSE]
  /\ lastLoad = [c \in Clients |-> "ok"]
  /\ subjects = [c \in Clients |-> InitSubjects]
  /\ alerted = [c \in Clients |-> FALSE]
  /\ raced = FALSE
  /\ failBudget = 0
  /\ opsLeft = MaxAdds
  /\ InitRLSIdle

\* two clients that show that store; they only add sessions
InitAdds ==
  /\ page = [c \in Clients |-> c]
  /\ InitAddsInPages

\* one page in which two handlers can run at a time (a second click before the first
\* one's reload has started); they only add sessions
InitPage ==
  /\ page = [c \in Clients |-> 1]
  /\ InitAddsInPages

NextAdds ==
  \E c \in Clients :
    \/ LoadSelect(c)
    \/ LoadFill(c)
    \/ LoadReselect(c)
    \/ LoadSync(c)
    \/ \E d \in Dates, in \in AddInputs : AddSelect(c, d, in)
    \/ AddWrite(c)

\* one client showing a store of one session; it adds subjects named like the
\* sentinels (addSubject has no reserved-name check) and adds sessions of the subjects
\* its form offers
InitReserved ==
  /\ version \in Versions
  /\ page = [c \in Clients |-> c]
  /\ tz = 0
  /\ study_sessions = {Row(1, 1, 0, "Java", 2, "arrays")}
  /\ app_subjects = InitSubjects
  /\ nextId = 2
  /\ pc = [c \in Clients |-> IF c = 1 THEN "idle" ELSE "off"]
  /\ op = [c \in Clients |-> NoOp]
  /\ frame = [c \in Clients |-> NoFrame]
  /\ sessions = [c \in Clients |-> IF c = 1 THEN SelectOrdered(study_sessions) ELSE <<>>]
  /\ loading = [c \in Clients |-> FALSE]
  /\ selectedDate = [c \in Clients |-> Today]
  /\ synced = [c \in Clients |-> {}]
  /\ failed = [c \in Clients |-> FALSE]
  /\ lastLoad = [c \in Clients |-> IF c = 1 THEN "ok" ELSE "none"]
  /\ subjects = [c \in Clients |-> IF c = 1 THEN InitSubjects ELSE {}]
  /\ alerted = [c \in Clients |-> FALSE]
  /\ raced = FALSE
  /\ failBudget = 0
  /\ opsLeft = MaxReservedOps
  /\ InitRLSIdle

NextReserved ==
  \E c \in Clients :
    \/ LoadSelect(c)
    \/ LoadFill(c)
    \/ LoadReselect(c)
    \/ LoadSync(c)
    \/ \E n \in {REST_SUBJECT, NO_STUDY} : AddSubject(c, n)
    \/ \E d \in Dates, in \in ReservedInputs :
         /\ in.subject \in {a.name : a \in subjects[page[c]]}
         /\ AddSelect(c, d, in)
    \/ AddWrite(c)

NextRLS ==
  \/ ApplyCreateStudyLog
  \/ ApplyRedesign
  \/ ApplyAdminPolicies
  \/ \E e \in Emails : AddAdminUser(e)
  \/ \E caller \in Callers, table \in Tables, cmd \in Commands : Attempt(caller, table, cmd)

Spec == Init /\ [][Next]_vars
SpecFail == InitFail /\ [][Next]_vars
SpecConc == InitConc /\ [][Next]_vars
SpecRLS == InitRLS /\ [][NextRLS]_vars
SpecAdds == InitAdds /\ [][NextAdds]_vars
SpecPage == InitPage /\ [][NextAdds]_vars
SpecReserved == InitReserved /\ [][NextReserved]_vars

\* the remote call client c awaits returns, and its operation goes on from there
Continue(c) ==
  \/ LoadSelect(c) \/ LoadFill(c) \/ LoadReselect(c) \/ LoadSync(c)
  \/ AddWrite(c)
  \/ DelDelete(c) \/ DelCheck(c) \/ DelInsert(c)
  \/ DeleteDayInsert(c)

\* one client, whose first load runs; remote calls may return errors
InitLive ==
  /\ InitStore
  /\ InitClients({1})
  /\ failBudget = MaxFail
  /\ opsLeft = MaxOpsLive
  /\ InitRLSIdle

\* every remote call returns
SpecLive == InitLive /\ [][Next]_vars /\ \A c \in Clients : WF_vars(Continue(c))

\* ------------------------------------------------------------- properties
\* client c's operation returns in this step
Finishes(c) == pc[c] \notin {"idle", "off"} /\ pc'[c] = "idle"

\* client c's operation returns in this step, its loadData complete and no remote call failed
LoadDone(c) == Finishes(c) /\ lastLoad'[c] = "ok" /\ ~failed'[c]

\* client c is at the last remote call of a loadData
AtLastSync(c) == pc[c] = "load_sync" /\ Len(frame[c].todo) = 1

IsPlaceholder(r) == r.subject = Sentinel(version) /\ r.hours = 0

\* every date from the earliest to the latest has a row
NoGaps(S) == \A d \in SetMin(DatesOf(S))..SetMax(DatesOf(S)) : RowsAt(S, d) # {}

\* the number of distinct dates of S before d
Rank(S, d) == Cardinality({x \in DatesOf(S) : x < d})

DayNumbersAreRanks(S) == \A r \in S : r.day_number = Rank(S, r.entry_date)

\* C1: when a load completes without a remote failure on a non-empty store, every
\* calendar date from the earliest to the latest entry_date of the store has a row.
C1_LoadFillsRange ==
  [][\A c \in Clients :
       LoadDone(c) /\ frame[c].normalized # <<>> =>
         study_sessions' # {} /\ NoGaps(study_sessions')]_vars

\* a load that found a gap is at its last remote call, the gap filled
C1_Witness ==
  \E c \in Clients :
    /\ AtLastSync(c)
    /\ ~NoGaps(SeqToSet(frame[c].normalized))
    /\ NoGaps(study_sessions)

C3_AddConvertsPlaceholder ==
  [][\A c \in Clients :
       /\ LoadDone(c)
       /\ op[c].kind = "add"
       /\ Len(frame[c].rows) = 1
       /\ IsPlaceholder(frame[c].rows[1])
       => \E q \in study_sessions' :
            /\ RowsAt(study_sessions', op[c].date) = {q}
            /\ q.id = frame[c].rows[1].id
            /\ q.entry_date = frame[c].rows[1].entry_date
            /\ q.subject = op[c].subject
            /\ q.hours = op[c].hours
            /\ q.topic = op[c].topic]_vars

\* an add that found a single placeholder row is at its last remote call
C3_Witness ==
  \E c \in Clients :
    /\ AtLastSync(c)
    /\ op[c].kind = "add"
    /\ Len(frame[c].rows) = 1
    /\ IsPlaceholder(frame[c].rows[1])
    /\ \E q \in study_sessions : q.id = frame[c].rows[1].id /\ q.subject = op[c].subject

\* deleteSession of client c removed the last real row of its date
DeletedLastReal(c) ==
  /\ op[c].kind = "del"
  /\ ~IsPlaceholder(frame[c].found)
  /\ frame[c].found.id \notin Ids(study_sessions)
  /\ \A i \in 1..Len(frame[c].rows) : IsPlaceholder(frame[c].rows[i])
  /\ \A r \in RowsAt(study_sessions, op[c].date) : IsPlaceholder(r)

\* C4: deleteSession of the last real session of a date that is not the most recent
\* date leaves exactly one row for that date, a placeholder.
C4_DeleteLeavesPlaceholder ==
  [][\A c \in Clients :
       /\ LoadDone(c)
       /\ DeletedLastReal(c)
       /\ \E r \in study_sessions' : op[c].date < r.entry_date
       => \E p \in study_sessions' :
            /\ RowsAt(study_sessions', op[c].date) = {p}
            /\ p.subject = Sentinel(version)
            /\ p.hours = 0]_vars

\* such a delete, of the earliest date's last real session, is at its last remote call
C4_Witness ==
  \E c \in Clients :
    /\ AtLastSync(c)
    /\ DeletedLastReal(c)
    /\ \E r \in study_sessions : op[c].date < r.entry_date
    /\ \A r \in study_sessions : op[c].date <= r.entry_date

\* the date of client c's deleteSession was the most recent date when the row was deleted
DeletedOnLatest(c) == \A r \in study_sessions : r.entry_date <= op[c].date

\* C5 as stated: deleteSession of the last real session of the most recent date leaves
\* the store without a row for that date.
C5_DeleteTrimsLatest ==
  [][\A c \in Clients :
       LoadDone(c) /\ DeletedLastReal(c) /\ DeletedOnLatest(c) =>
         RowsAt(study_sessions', op[c].date) = {}]_vars

\* C5 as amended: deleteSession of the last real session of the most recent date leaves
\* exactly one row for that date, a placeholder, and the latest date of the store is
\* still that date.
C5_DeleteKeepsLatest ==
  [][\A c \in Clients :
       LoadDone(c) /\ DeletedLastReal(c) /\ DeletedOnLatest(c) =>
         /\ \E p \in study_sessions' :
              RowsAt(study_sessions', op[c].date) = {p} /\ IsPlaceholder(p)
         /\ \A r \in study_sessions' : r.entry_date <= op[c].date]_vars

\* such a delete, on the most recent of several dates, is at its last remote call
C5_Witness ==
  \E c \in Clients :
    /\ AtLastSync(c)
    /\ DeletedLastReal(c)
    /\ DeletedOnLatest(c)
    /\ Cardinality(DatesOf(study_sessions)) >= 2

C7_ExampleLoad ==
  [][\A c \in Clients :
       LoadDone(c) /\ DatesOf(SeqToSet(frame[c].normalized)) = {1, 3} =>
         /\ DatesOf(study_sessions') = {1, 2, 3}
         /\ Ids(study_sessions') \ Ids(SeqToSet(frame[c].normalized)) = Ids(RowsAt(study_sessions', 2))
         /\ \E p \in study_sessions' : RowsAt(study_sessions', 2) = {p} /\ IsPlaceholder(p)
         /\ \A r \in study_sessions' : r.day_number = r.entry_date - 1]_vars

\* every client is idle after a load that completed
AllLoaded == \A c \in Clients : pc[c] = "idle" /\ lastLoad[c] = "ok" /\ ~failed[c]

\* two placeholder rows of one date
DoublePlaceholder(r1, r2) ==
  /\ r1.id # r2.id
  /\ r1.entry_date = r2.entry_date
  /\ IsPlaceholder(r1)
  /\ IsPlaceholder(r2)

\* C8: two clients loading at the same time can both insert a placeholder row for the
\* same missing date (the witness is that state); one client never inserts both rows.
C8_DoublePlaceholderNeedsTwoClients ==
  \A r1, r2 \in study_sessions : DoublePlaceholder(r1, r2) => r1.by # r2.by

\* both clients have finished their loads and a date holds a placeholder row of each
C8_Witness ==
  /\ AllLoaded
  /\ \E r1, r2 \in study_sessions : DoublePlaceholder(r1, r2) /\ r1.by = 1 /\ r2.by = 2

\* C9: when two clients interleave, the stored day_number of a row can differ from the
\* rank of its date after both have finished (the witness is that state); a load that
\* ends an operation no other client overlapped leaves every day_number equal to the rank.
C9_RanksUnlessInterleaved ==
  [][\A c \in Clients :
       /\ LoadDone(c)
       /\ ~raced
       /\ \A o \in Clients \ {c} : pc[o] = "idle"
       => DayNumbersAreRanks(study_sessions')]_vars

\* both clients have finished their loads and a stored day_number is not the rank
C9_Witness ==
  /\ AllLoaded
  /\ raced
  /\ ~DayNumbersAreRanks(study_sessions)

WriteCommands == {<<"study_sessions", "INSERT">>, <<"study_sessions", "UPDATE">>,
                  <<"study_sessions", "DELETE">>, <<"app_subjects", "INSERT">>,
                  <<"app_subjects", "DELETE">>}

\* C10: once all migrations are applied, only an authenticated caller whose email is in
\* admin_users is permitted to insert, update or delete study_sessions or to insert or
\* delete app_subjects.
C10_OnlyAdminsWrite ==
  AllApplied =>
    \A caller \in Callers, w \in WriteCommands :
      Permitted(policies, admin_users, caller, w[1], w[2]) =>
        caller.role = "authenticated" /\ caller.email \in admin_users

ReadTables == {"study_sessions", "app_subjects"}

\* C11: once all migrations are applied, an anonymous caller and an authenticated
\* administrator are both permitted to select from study_sessions and from app_subjects.
C11_ReadKeptForAll ==
  AllApplied =>
    \A caller \in Callers, t \in ReadTables :
      (caller.role = "anon" \/ caller.email \in admin_users) =>
        Permitted(policies, admin_users, caller, t, "SELECT")

\* this step is a remote call of client c's addSessionEntry
AddStep(c) ==
  \/ \E d \in Dates, in \in AddInputs : AddSelect(c, d, in) \/ AddSessionToDate(c, d, in)
  \/ AddWrite(c)

\* this step is a remote call of client c's deleteSession or deleteDay
DeleteStep(c) ==
  \/ \E id \in Ids(study_sessions) \cup {sessions[c][i].id : i \in 1..Len(sessions[c])} : DelFind(c, id)
  \/ DelDelete(c)
  \/ DelCheck(c)
  \/ DelInsert(c)
  \/ \E d \in DatesOf(SeqToSet(sessions[c])) : DeleteDay(c, d)
  \/ DeleteDayInsert(c)

\* the remote call of this step returned an error
CallFails == failBudget' < failBudget

\* C12 as stated: every failed remote call of addSessionEntry, deleteSession or deleteDay
\* is logged and shown to the user in a dialog.
C12_EveryFailureAlerts ==
  [][\A c \in Clients :
       (AddStep(c) \/ DeleteStep(c)) /\ CallFails => failed'[c] /\ alerted'[c]]_vars

\* C12 as amended: a failed remote call of addSessionEntry is logged and shown in a
\* dialog; a failed remote call of deleteSession or deleteDay is logged and no dialog
\* is shown.
C12_OnlyAddFailuresAlert ==
  [][\A c \in Clients :
       /\ AddStep(c) /\ CallFails => failed'[c] /\ alerted'[c]
       /\ DeleteStep(c) /\ CallFails => failed'[c] /\ ~alerted'[c]]_vars

\* a delete whose check or placeholder insert failed goes on to its reload, no dialog
\* shown
C12_Witness ==
  \E c \in Clients :
    /\ pc[c] = "load_select"
    /\ op[c].kind \in {"del", "delday"}
    /\ failed[c]
    /\ ~alerted[c]

\* the rows of the store as client c displays them differ from the rows as stored
DisplayDiffers(c) ==
  \E i \in 1..Len(sessions[c]) : \E r \in study_sessions :
    r.id = sessions[c][i].id /\ r.day_number # sessions[c][i].day_number

\* C13: a failed placeholder insert or day_number update does not end the load: the
\* next insert or update of the chain is issued, the load completes, an update has been
\* issued for every re-selected row, and the displayed list is the re-selected rows with
\* recomputed indices.
C13_ReloadContinuesAfterFailedWrite ==
  [][\A c \in Clients :
       /\ LoadFill(c) /\ CallFails =>
            /\ frame'[c].missing = Tail(frame[c].missing)
            /\ pc'[c] = IF Tail(frame[c].missing) = <<>> THEN "load_reselect" ELSE "load_fill"
       /\ LoadSync(c) /\ CallFails =>
            IF Len(frame[c].todo) > 1
            THEN pc'[c] = "load_sync" /\ frame'[c].todo = Tail(frame[c].todo)
            ELSE pc'[c] = "idle" /\ lastLoad'[c] = "ok"
       /\ Finishes(c) /\ lastLoad'[c] = "ok" /\ frame[c].final # <<>> =>
            /\ sessions'[c] = frame[c].final
            /\ DayNumbersAreRanks(SeqToSet(sessions'[c]))
            /\ synced'[c] = Ids(SeqToSet(frame[c].final))]_vars

\* a load has completed although one of its day_number updates failed: a displayed
\* index is not the stored one
C13_Witness ==
  \E c \in Clients :
    /\ pc[c] = "idle"
    /\ lastLoad[c] = "ok"
    /\ failed[c]
    /\ DisplayDiffers(c)

\* a load has completed although one of its placeholder inserts failed: a gap remains
C13_GapRemains ==
  \E c \in Clients :
    /\ pc[c] = "idle"
    /\ lastLoad[c] = "ok"
    /\ failed[c]
    /\ study_sessions # {}
    /\ ~NoGaps(study_sessions)

\* C14: when the first select or the re-select of a load fails, the load ends there: the
\* displayed list is the one shown before the operation, the store keeps what the
\* operation has written, and the client issues no further call. The displayed list
\* changes only when a load completes or the page is opened.
C14_FailedSelectKeepsDisplay ==
  [][\A c \in Clients :
       /\ (LoadSelect(c) \/ LoadReselect(c)) /\ CallFails =>
            /\ sessions'[c] = sessions[c]
            /\ study_sessions' = study_sessions
            /\ pc'[c] = "idle"
            /\ lastLoad'[c] = "thrown"
       /\ sessions'[c] # sessions[c] =>
            (Finishes(c) /\ lastLoad'[c] = "ok") \/ Mount(c)]_vars

\* a load has ended on a failed select: a row the client wrote is in the store and not
\* in its displayed list
C14_Witness ==
  \E c \in Clients :
    /\ pc[c] = "idle"
    /\ lastLoad[c] = "thrown"
    /\ sessions[c] # <<>>
    /\ \E r \in study_sessions : r.by = c /\ r.id \notin Ids(SeqToSet(sessions[c]))

\* the rows of T that S does not hold: rows inserted or changed between S and T
Written(S, T) == T \ S

\* C15: the remote calls of one load form a sequential chain: each placeholder insert
\* and each day_number update is one call that writes at most one row, the re-select is
\* issued only when no placeholder insert is left and before any day_number update, and
\* the updates go through the re-selected rows one after the other.
C15_LoadIsSequential ==
  [][\A c \in Clients :
       /\ LoadFill(c) =>
            /\ frame[c].missing # <<>>
            /\ frame'[c].missing = Tail(frame[c].missing)
            /\ Cardinality(Written(study_sessions, study_sessions')) <= 1
            /\ synced[c] = {}
       /\ LoadReselect(c) =>
            /\ frame[c].missing = <<>>
            /\ synced[c] = {}
            /\ study_sessions' = study_sessions
       /\ LoadSync(c) =>
            /\ frame[c].missing = <<>>
            /\ frame[c].todo # <<>>
            /\ synced'[c] = synced[c] \cup {Head(frame[c].todo).id}
            /\ Cardinality(Written(study_sessions, study_sessions')) <= 1
            /\ \E k \in 0..Len(frame[c].final) :
                 frame[c].todo = SubSeq(frame[c].final, k + 1, Len(frame[c].final))]_vars

\* a load is in the middle of its updates, after two placeholder inserts and the re-select
C15_Witness ==
  \E c \in Clients :
    /\ pc[c] = "load_sync"
    /\ Len(frame[c].todo) < Len(frame[c].final)
    /\ Len(frame[c].todo) > 1
    /\ Cardinality({r \in study_sessions : r.by = c /\ IsPlaceholder(r)
                      /\ r.id \notin Ids(SeqToSet(frame[c].normalized))}) >= 2

\* C16: when two addSessionEntry calls overlap, no entry is lost: once every call has
\* completed, the store holds one real row for each session submitted.
C16_NoAddLost ==
  (\A c \in Clients : pc[c] = "idle") =>
    Cardinality({r \in study_sessions : r.subject # Sentinel(version)}) = MaxAdds - opsLeft

\* a step that changes a table
StoreChanged == study_sessions' # study_sessions \/ app_subjects' # app_subjects

\* a subject is added or deleted by client c, successfully
SubjectStep(c) == subjects'[c] # subjects[c] /\ app_subjects' # app_subjects

\* what client c displays after the step is exactly what the tables hold after it
DisplayIsStore(c) ==
  /\ SeqToSet(sessions'[c]) = study_sessions'
  /\ subjects'[c] = app_subjects'

C18_DeleteSubjectKeepsSessions ==
  [][\A c \in Clients : \A a \in subjects[c] :
       DeleteSubject(c, a.id) =>
         /\ study_sessions' = study_sessions
         /\ app_subjects \ app_subjects' \subseteq {r \in app_subjects : r.id = a.id}
         /\ app_subjects' \subseteq app_subjects]_vars

\* the subject "Java" has been deleted and a session of "Java" is still stored
C18_Witness ==
  /\ pc[1] = "idle"
  /\ ~(\E a \in app_subjects : a.name = "Java")
  /\ \E r \in study_sessions : r.subject = "Java"

\* every row of S is in T with its id, date, subject, hours and topic, except the
\* rows of S dated d
KeepsContent(S, T, d) ==
  \A r \in S : r.entry_date # d =>
    \E q \in T : /\ q.id = r.id
                 /\ q.entry_date = r.entry_date
                 /\ q.subject = r.subject
                 /\ q.hours = r.hours
                 /\ q.topic = r.topic

\* every row of S is in T with its id, date, subject, hours and topic
KeepsEveryRow(S, T) ==
  \A r \in S :
    \E q \in T : /\ q.id = r.id
                 /\ q.entry_date = r.entry_date
                 /\ q.subject = r.subject
                 /\ q.hours = r.hours
                 /\ q.topic = r.topic

\* C19: a confirmed, failure-free deleteDay(date) leaves exactly one row for the date,
\* a placeholder ('No Study', hours 0, empty topic), whatever rows the date had, and
\* at each of its steps the rows of other dates keep subject, hours and topic.
C19_DeleteDayLeavesOnePlaceholder ==
  [][\A c \in Clients :
       /\ (op[c].kind = "delday" /\ LoadDone(c)) =>
            \E r \in study_sessions' :
              /\ RowsAt(study_sessions', op[c].date) = {r}
              /\ r.subject = NO_STUDY /\ r.hours = 0 /\ r.topic = ""
       /\ (op[c].kind = "delday") =>
            KeepsContent(study_sessions, study_sessions', op[c].date)
       /\ (op[c].kind # "delday" /\ op'[c].kind = "delday") =>
            KeepsContent(study_sessions, study_sessions', op'[c].date)]_vars

\* the last step of a deleteDay on a date displayed with two sessions or more, while
\* another date holds a session
C19_Witness ==
  /\ AtLastSync(1)
  /\ op[1].kind = "delday"
  /\ Cardinality({i \in 1..Len(sessions[1]) :
                    sessions[1][i].entry_date = op[1].date /\ sessions[1][i].hours > 0}) >= 2
  /\ \E r \in study_sessions : r.entry_date # op[1].date /\ r.hours > 0
  /\ Cardinality(RowsAt(study_sessions, op[1].date)) = 1

\* addSessionEntry found rows on the date and no placeholder among them
AddsToRealDate(c) ==
  /\ pc[c] = "add_write"
  /\ Len(frame[c].rows) > 0
  /\ \A i \in 1..Len(frame[c].rows) : frame[c].rows[i].subject # Sentinel(version)

\* C20: addSessionEntry on a date that has at least one row and no placeholder inserts
\* exactly one new row with the submitted values and leaves every existing row in
\* place and unmodified; the reload that follows keeps the content of every row.
C20_AddInsertsOneRow ==
  [][\A c \in Clients :
       /\ (AddsToRealDate(c) /\ AddWrite(c)) =>
            \E n \in study_sessions' :
              /\ n.id \notin Ids(study_sessions)
              /\ study_sessions' = study_sessions \cup {n}
              /\ n.entry_date = op[c].date
              /\ n.subject = op[c].subject /\ n.hours = op[c].hours /\ n.topic = op[c].topic
       /\ (op[c].kind = "add" /\ pc[c] # "add_write") =>
            KeepsEveryRow(study_sessions, study_sessions')]_vars

\* the last step of an add that made its date hold three sessions
C20_Witness ==
  /\ AtLastSync(1)
  /\ op[1].kind = "add"
  /\ Cardinality({r \in RowsAt(study_sessions, op[1].date) : r.hours > 0}) >= 3

\* no two rows of the subject table T have the same name
UniqueNames(T) == \A a, b \in T : a.name = b.name => a = b

\* C21: no two rows of app_subjects ever have the same name: addSubject with a name
\* that is present fails, the error is alerted, and the store and the displayed
\* subjects are unchanged.
C21_SubjectNamesUnique ==
  [][/\ UniqueNames(app_subjects) /\ UniqueNames(app_subjects')
     /\ \A c \in Clients : \A n \in SubjectInputs :
          (AddSubject(c, n) /\ \E a \in app_subjects : a.name = n) =>
            /\ alerted'[c]
            /\ app_subjects' = app_subjects
            /\ subjects' = subjects]_vars

\* a name of the table has been submitted again and refused
C21_Witness ==
  /\ pc[1] = "idle"
  /\ alerted[1]
  /\ lastLoad[1] = "none"
  /\ opsLeft = MaxOps - 1
  /\ \E a \in app_subjects : a.name \in SubjectInputs
  /\ subjects[1] = app_subjects

\* the sum of the hours of the entries of list at the positions in idx
RECURSIVE HoursAt(_, _)
HoursAt(list, idx) ==
  IF idx = {} THEN 0
  ELSE LET i == CHOOSE x \in idx : TRUE
       IN list[i].hours + HoursAt(list, idx \ {i})

\* the positions of the displayed sessions of client c whose subject text is in names
SessionsOf(c, names) == {i \in 1..Len(sessions[c]) : sessions[c][i].subject \in names}

\* C22: the summary's total of a managed subject is the sum of the hours of the
\* displayed sessions with that subject text, and the grand total is the sum of the
\* hours of the displayed sessions of managed subjects, so sessions of other subject
\* texts (placeholders, deleted subjects) count nowhere.
C22_TotalsAreSums ==
  \A c \in Clients :
    LET totals == calculateSubjectTotals(sessions[c], subjects[c])
        names == {a.name : a \in subjects[c]}
    IN /\ DOMAIN totals = names
       /\ \A n \in names : totals[n] = HoursAt(sessions[c], SessionsOf(c, {n}))
       /\ grandTotal(totals) = HoursAt(sessions[c], SessionsOf(c, names))

\* the display holds a session of a subject that is no longer managed, a placeholder
\* row, and a session of a managed subject
C22_Witness ==
  /\ pc[1] = "idle"
  /\ \E i \in 1..Len(sessions[1]) :
       /\ sessions[1][i].hours > 0
       /\ ~(\E a \in subjects[1] : a.name = sessions[1][i].subject)
  /\ \E i \in 1..Len(sessions[1]) : sessions[1][i].subject = Sentinel(version)
  /\ \E i \in 1..Len(sessions[1]) :
       /\ sessions[1][i].hours > 0
       /\ \E a \in subjects[1] : a.name = sessions[1][i].subject

\* C23 (as stated): addSessionToDate(date, ...) writes its session on the given date,
\* the one the form shows while the call runs, whatever date was selected before, and
\* when the call has returned the form's selected date is the one of before the call.
C23_EditAddsToItsDate ==
  [][\A c \in Clients : op[c].restore =>
       /\ AddWrite(c) =>
            \A r \in Written(study_sessions, study_sessions') : r.entry_date = selectedDate[c]
       /\ Finishes(c) => selectedDate'[c] = op[c].date]_vars

\* C24: a load on a store without study_sessions rows issues no insert and no update:
\* its select is its last call, the displayed sessions become empty, the displayed
\* subjects the loaded ones, and the loading flag is false.
C24_EmptyLoadWritesNothing ==
  [][\A c \in Clients :
       (study_sessions = {} /\ LoadSelect(c)) =>
         /\ study_sessions' = {}
         /\ app_subjects' = app_subjects
         /\ pc'[c] = "idle"
         /\ sessions'[c] = <<>>
         /\ subjects'[c] = app_subjects
         /\ ~loading'[c]]_vars

\* a load of the empty store has completed and the subjects are displayed
C24_Witness ==
  /\ pc[1] = "idle"
  /\ lastLoad[1] = "ok"
  /\ study_sessions = {}
  /\ sessions[1] = <<>>
  /\ subjects[1] = app_subjects
  /\ subjects[1] # {}
  /\ ~loading[1]

\* C25: addSessionEntry with an empty subject or with hours <= 0 issues no remote
\* call: nothing can fail, the store and the displayed list are unchanged, the user is
\* alerted and the operation is over; and every row addSessionEntry writes has a
\* non-empty subject and hours > 0.
C25_InvalidAddIsRejected ==
  [][\A c \in Clients :
       /\ \A d \in Dates, in \in FormInputs :
            (AddSelect(c, d, in) /\ (in.subject = "" \/ in.hours <= 0)) =>
              /\ pc'[c] = "idle" /\ op'[c] = NoOp
              /\ failBudget' = failBudget
              /\ study_sessions' = study_sessions /\ nextId' = nextId
              /\ sessions' = sessions
              /\ alerted'[c]
       /\ AddWrite(c) =>
            \A r \in Written(study_sessions, study_sessions') :
              r.subject # "" /\ r.hours > 0]_vars

\* an add has been refused by the validation: an alert was shown though no call failed
\* and the last load stands
C25_Witness ==
  /\ pc[1] = "idle"
  /\ alerted[1]
  /\ lastLoad[1] = "ok"
  /\ failBudget = MaxFail
  /\ opsLeft = MaxOps - 1
  /\ study_sessions # {}
  /\ SeqToSet(sessions[1]) = study_sessions

\* deleteSession of client c ends at this step without a write and without a reload
DeleteStops(c) ==
  /\ pc'[c] = "idle" /\ op'[c] = NoOp
  /\ ~loading'[c]
  /\ study_sessions' = study_sessions /\ nextId' = nextId
  /\ sessions'[c] = sessions[c]

\* C26: when deleteSession's lookup of the row fails or finds nothing, or its delete
\* call fails, no further remote call is issued: no placeholder is inserted, no reload
\* runs, and the store and the displayed list are unchanged.
C26_FailedDeleteStops ==
  [][\A c \in Clients :
       /\ \A id \in Ids(study_sessions) \cup {sessions[c][i].id : i \in 1..Len(sessions[c])} :
            (DelFind(c, id) /\ (CallFails \/ id \notin Ids(study_sessions))) => DeleteStops(c)
       /\ (DelDelete(c) /\ CallFails) => DeleteStops(c)]_vars

\* Delete was clicked on a displayed row that the store no longer holds (the reload of
\* an earlier delete had failed): the lookup found nothing and the operation is over
C26_Witness ==
  /\ pc[1] = "idle"
  /\ lastLoad[1] = "none"
  /\ ~failed[1]
  /\ opsLeft = 0
  /\ failBudget = 0
  /\ app_subjects = InitSubjects
  /\ \E i \in 1..Len(sessions[1]) : sessions[1][i].id \notin Ids(study_sessions)

LoadLabels == {"load_select", "load_fill", "load_reselect", "load_sync"}

\* C27 (as stated): the loading flag is true from the start of every load until it
\* ends, and false when no load runs.
C27_LoadingWhileLoadRuns ==
  /\ \A c \in Clients : pc[c] \in LoadLabels => loading[page[c]]
  /\ (\A c \in Clients : pc[c] \notin LoadLabels) => \A c \in Clients : ~loading[page[c]]

\* client c's deleteSession is in progress and the row it found is a placeholder row
DeletesPlaceholder(c) ==
  /\ op[c].kind = "del"
  /\ frame[c].found.subject = Sentinel(version)
  /\ frame[c].found.hours = 0

\* the rows of S and T on dates other than d are the same rows with the same date,
\* subject, hours and topic, and S and T have the same dates apart from d
SameOtherDays(S, T, d) ==
  /\ KeepsContent(S, T, d)
  /\ \A q \in T : q.entry_date # d => \E r \in S : r.id = q.id
  /\ DatesOf(S) \cup {d} = DatesOf(T) \cup {d}

\* C28: deleting a placeholder row through deleteSession leaves its date with exactly
\* one placeholder row when the operation is over, and at every step of the operation
\* the other dates and their rows' subject, hours and topic are as before.
C28_DeletedPlaceholderComesBack ==
  [][\A c \in Clients : DeletesPlaceholder(c) =>
       /\ SameOtherDays(study_sessions, study_sessions', op[c].date)
       /\ LoadDone(c) =>
            \E r \in study_sessions' :
              /\ RowsAt(study_sessions', op[c].date) = {r}
              /\ r.subject = Sentinel(version) /\ r.hours = 0 /\ r.topic = ""]_vars

\* the last step of a deleteSession of a placeholder row: the date holds a placeholder
\* row again, under a new id
C28_Witness ==
  /\ AtLastSync(1)
  /\ DeletesPlaceholder(1)
  /\ \E r \in RowsAt(study_sessions, op[1].date) :
       r.subject = Sentinel(version) /\ r.id # frame[1].found.id
  /\ \E r \in study_sessions : r.hours > 0

\* the rows of S dated d are one placeholder row, or rows that are all real
PlaceholderAlone(S, d) ==
  \/ \E r \in S : RowsAt(S, d) = {r} /\ IsPlaceholder(r)
  \/ RowsAt(S, d) # {} /\ \A r \in RowsAt(S, d) : ~IsPlaceholder(r)

\* C29: when a single client runs failure-free operations one at a time, then once an
\* operation has finished no date holds a placeholder row together with another row.
C29_PlaceholderNeverShared ==
  pc[1] = "idle" => \A d \in DatesOf(study_sessions) : PlaceholderAlone(study_sessions, d)

\* every operation has been run; a date holds a placeholder row and another date holds
\* two real rows or more
C29_Witness ==
  /\ pc[1] = "idle"
  /\ opsLeft = 0
  /\ \E r \in study_sessions : IsPlaceholder(r)
  /\ \E d \in DatesOf(study_sessions) :
       Cardinality({r \in RowsAt(study_sessions, d) : ~IsPlaceholder(r)}) >= 2

\* this step is a remote call of client c's loadData
LoadStep(c) == LoadSelect(c) \/ LoadFill(c) \/ LoadReselect(c) \/ LoadSync(c)

\* C30: a load never deletes a row and never changes the entry_date, subject, hours or
\* topic of a row: a step of a load leaves every row in the store with these fields,
\* and a row it adds is a placeholder row (sentinel subject, hours 0, empty topic).
C30_LoadOnlyFillsAndNumbers ==
  [][\A c \in Clients : LoadStep(c) =>
       /\ KeepsEveryRow(study_sessions, study_sessions')
       /\ \A q \in study_sessions' : q.id \notin Ids(study_sessions) =>
            q.subject = Sentinel(version) /\ q.hours = 0 /\ q.topic = ""]_vars

\* the last update of a page's first load that has inserted a placeholder row and
\* renumbers a session that has a topic
C30_Witness ==
  /\ AtLastSync(1)
  /\ op[1].kind = "load"
  /\ \E r \in study_sessions : IsPlaceholder(r) /\ r.by = 1
  /\ \E r \in study_sessions :
       /\ r.id = Head(frame[1].todo).id
       /\ r.topic # ""
       /\ r.day_number # Head(frame[1].todo).day_number

\* C31 (as stated): for every timezone offset addDays(d, 0) = d and addDays(d, n) is
\* the date n days after d, and a row a load inserts is dated strictly between the
\* earliest and the latest date of the store, so loads do not grow the date range.
C31_FillStaysInsideRange ==
  [][/\ \A d \in Dates, n \in 0..MaxDate : AddDaysOf(version, d, n, tz) = d + n
     /\ \A c \in Clients : LoadFill(c) =>
          \A q \in Written(study_sessions, study_sessions') :
            /\ \E r \in study_sessions : r.entry_date < q.entry_date
            /\ \E r \in study_sessions : q.entry_date < r.entry_date]_vars

\* C32 (as stated): addSessionEntry never overwrites a session the user entered: its
\* write leaves every row with hours > 0 with its subject, hours and topic, also when
\* a managed subject is named like the sentinel and a session is recorded under it.
C32_AddKeepsRealSessions ==
  [][\A c \in Clients : AddWrite(c) =>
       \A r \in study_sessions : r.hours > 0 =>
         \E q \in study_sessions' :
           /\ q.id = r.id
           /\ q.subject = r.subject /\ q.hours = r.hours /\ q.topic = r.topic]_vars

\* a step of a load that the page, opened again, runs right after the first load of
\* the run: no operation on the sessions was started in between
SecondLoadStep(c) == LoadStep(c) /\ op[c].kind = "load" /\ opsLeft = MaxOps - 1

\* the rows of S are the rows of T: none more, and each with its date, subject, hours,
\* topic and day number
SameRows(S, T) ==
  /\ Ids(T) = Ids(S)
  /\ \A r \in S : \E q \in T :
       /\ q.id = r.id
       /\ q.entry_date = r.entry_date /\ q.subject = r.subject
       /\ q.hours = r.hours /\ q.topic = r.topic /\ q.day_number = r.day_number

\* C33 (as stated): a load is idempotent on the store: a second load that runs right
\* after a failure-free first one inserts no row and leaves the date, subject, hours,
\* topic and day number of every row as they were.
C33_SecondLoadChangesNothing ==
  [][\A c \in Clients : SecondLoadStep(c) => SameRows(study_sessions, study_sessions')]_vars

\* the calendar days from the earliest date of S to date d
DaysFromEarliest(S, d) == d - SetMin(DatesOf(S))

\* C34: after a failure-free load the stored day_number of every row is the number of
\* calendar days from the earliest entry_date of the store to the row's entry_date,
\* whatever day_number the row was inserted with.
C34_DayNumberIsDaysFromEarliest ==
  [][\A c \in Clients :
       LoadDone(c) =>
         \A r \in study_sessions' :
           r.day_number = DaysFromEarliest(study_sessions', r.entry_date)]_vars

\* the load that ends an addSessionEntry is at its last update: the session was added
\* after the latest date with the index max + 1, the load has put a placeholder with
\* index 0 into the gap and has renumbered it, and the session's index is to change
C34_Witness ==
  \E c \in Clients :
    /\ AtLastSync(c)
    /\ op[c].kind = "add"
    /\ \E r \in study_sessions :
         /\ r.id = Head(frame[c].todo).id
         /\ r.hours > 0 /\ r.by = c
         /\ r.day_number # Head(frame[c].todo).day_number
         /\ Head(frame[c].todo).day_number = DaysFromEarliest(study_sessions, r.entry_date)
    /\ \E p \in study_sessions :
         /\ IsPlaceholder(p) /\ p.by = c
         /\ p.day_number > 0
         /\ p.day_number = DaysFromEarliest(study_sessions, p.entry_date)

\* how far the label is from the end of its operation, in remote-call sites
PhaseOf(label) ==
  CASE label \in {"idle", "off"} -> 0
    [] label = "load_sync" -> 1
    [] label = "load_reselect" -> 2
    [] label = "load_fill" -> 3
    [] label = "load_select" -> 4
    [] label \in {"add_write", "del_insert", "dd_insert"} -> 5
    [] label = "del_check" -> 6
    [] label = "del_delete" -> 7

\* the step takes client c's operation to a later call site, or stays in its loop with
\* one item less to go
Progress(c) ==
  \/ PhaseOf(pc'[c]) < PhaseOf(pc[c])
  \/ /\ pc'[c] = pc[c]
     /\ Len(frame'[c].missing) + Len(frame'[c].todo) < Len(frame[c].missing) + Len(frame[c].todo)

\* C35: every operation finishes when every remote call returns, with data or with an
\* error: each returned call takes the operation forward, never back to a call site it
\* has left; a load issues one insert for a date that had no row and no second one for
\* the same date, and one update for a re-selected row and no second one for that row.
C35_EveryOperationFinishes ==
  /\ [][\A c \in Clients :
         /\ Continue(c) => Progress(c)
         /\ LoadFill(c) =>
              /\ Head(frame[c].missing) \notin DatesOf(SeqToSet(frame[c].normalized))
              /\ Head(frame[c].missing) \notin SeqToSet(Tail(frame[c].missing))
              /\ Cardinality(Written(study_sessions, study_sessions')) <= 1
              /\ \A q \in Written(study_sessions, study_sessions') :
                   q.entry_date = Head(frame[c].missing)
         /\ LoadSync(c) =>
              /\ Head(frame[c].todo).id \in Ids(SeqToSet(frame[c].final))
              /\ Head(frame[c].todo).id \notin synced[c]]_vars
  /\ \A c \in Clients : (pc[c] \notin {"idle", "off"}) ~> (pc[c] = "idle")

\* a deleteSession has finished although one of its remote calls returned an error: its
\* load has inserted a placeholder and has updated three rows or more
C35_Witness ==
  \E c \in Clients :
    /\ pc[c] = "idle"
    /\ opsLeft < MaxOps
    /\ failBudget < MaxFail
    /\ lastLoad[c] = "ok"
    /\ Cardinality(synced[c]) >= 3
    /\ \E r \in study_sessions : IsPlaceholder(r) /\ r.by = c
====
